---- MODULE Spec2Model ----
(***************************************************************************)
(* One Light of iot_app/iot/lights.py: its cached properties, its RLock,   *)
(* one foreground caller of its mutators and its background refresh; then  *)
(* the LightManager: its discovery passes over the persistence store, its  *)
(* lookups and notify, and the callers racing on LightManager.instance().  *)
(* Every attribute write of a Light goes through Light.__setattr__, which  *)
(* takes the RLock for that one write; the property setters (brightness,   *)
(* color, on) are themselves entered through __setattr__ and so run whole  *)
(* under the lock, while set_effect is a plain method and is not.          *)
(***************************************************************************)
EXTENDS Integers, Sequences, FiniteSets, TLC

VARIABLES light, lock, fg, rt, constructed, store

VARIABLES lights, disc, notified

VARIABLES instance, callers, managers

lightVars == <<light, lock, fg, rt, constructed>>

mgrVars == <<lights, disc, notified>>

singVars == <<instance, callers, managers>>

vars == <<light, lock, fg, rt, constructed, store, lights, disc, notified,
          instance, callers, managers>>

None == "None"

(* ----------------------------- strings -------------------------------- *)
(* A Python str is a sequence of one-character strings.                   *)

HexLower == <<"0","1","2","3","4","5","6","7","8","9","a","b","c","d","e","f">>

HexUpper == <<"0","1","2","3","4","5","6","7","8","9","A","B","C","D","E","F">>

IsHexChar(c) == \E i \in 1..16 : HexLower[i] = c \/ HexUpper[i] = c

HexVal(c) == (CHOOSE i \in 1..16 : HexLower[i] = c \/ HexUpper[i] = c) - 1

IsInt(s) == s # <<>> /\ \A i \in 1..Len(s) : \E d \in 1..10 : HexLower[d] = s[i]

LowerCase == <<"a","b","c","d","e","f","g","h","i","j","k","l","m",
               "n","o","p","q","r","s","t","u","v","w","x","y","z">>

UpperCase == <<"A","B","C","D","E","F","G","H","I","J","K","L","M",
               "N","O","P","Q","R","S","T","U","V","W","X","Y","Z">>

upper(s) ==
    [i \in 1..Len(s) |->
        IF \E k \in 1..26 : LowerCase[k] = s[i]
        THEN UpperCase[CHOOSE k \in 1..26 : LowerCase[k] = s[i]]
        ELSE s[i]]

RECURSIVE ParseInt(_)
ParseInt(s) ==
    IF s = <<>> THEN 0
    ELSE 10 * ParseInt(SubSeq(s, 1, Len(s) - 1)) + HexVal(s[Len(s)])

(* ------------------------------ Color --------------------------------- *)

NoColor == <<>>

Color(red, green, blue) == <<red, green, blue>>

from_rgb_int(rgb_int) ==
    Color((rgb_int \div 65536) % 256, (rgb_int \div 256) % 256, rgb_int % 256)

HexValid(s) ==
    /\ Len(s) \in {4, 7}
    /\ s[1] = "#"
    /\ \A i \in 2..Len(s) : IsHexChar(s[i])

normalize_hex(s) ==
    IF Len(s) = 4
    THEN <<"#", HexLower[HexVal(s[2]) + 1], HexLower[HexVal(s[2]) + 1],
                HexLower[HexVal(s[3]) + 1], HexLower[HexVal(s[3]) + 1],
                HexLower[HexVal(s[4]) + 1], HexLower[HexVal(s[4]) + 1]>>
    ELSE [i \in 1..7 |-> IF i = 1 THEN "#" ELSE HexLower[HexVal(s[i]) + 1]]

hex_to_rgb(h) ==
    <<16 * HexVal(h[2]) + HexVal(h[3]),
      16 * HexVal(h[4]) + HexVal(h[5]),
      16 * HexVal(h[6]) + HexVal(h[7])>>

from_hex(s) == hex_to_rgb(normalize_hex(s))

rgb_dict(c) == [red |-> c[1], green |-> c[2], blue |-> c[3]]

hex(c) ==
    <<"#", HexLower[(c[1] \div 16) + 1], HexLower[(c[1] % 16) + 1],
           HexLower[(c[2] \div 16) + 1], HexLower[(c[2] % 16) + 1],
           HexLower[(c[3] \div 16) + 1], HexLower[(c[3] % 16) + 1]>>

(* ------------------------------ errors -------------------------------- *)

OK == "ok"

ValueError == "ValueError"

KeyError == "KeyError"

PropsIncorrect == "LightException: Props supplied to effect are incorrect"

CannotConnect == "LightException: Cannot connect to the smart bulb"

(* ------------------------------ effects ------------------------------- *)

EmptyDict == [k \in {} |-> 0]

effects_map ==
    [disco  |-> [params |-> {"count"}, count |-> 0, duration |-> 0],
     lsd    |-> [params |-> {"duration", "count"}, count |-> 0, duration |-> 1000],
     police |-> [params |-> {"count", "duration"}, count |-> 0, duration |-> 300],
     strobe |-> [params |-> {"count"}, count |-> 0, duration |-> 0],
     random |-> [params |-> {"count", "duration"}, count |-> 0, duration |-> 500]]

AcceptsProps_Any(effect_name, effect_props) == TRUE

AcceptsProps(effect_name, effect_props) ==
    DOMAIN effect_props \subseteq effects_map[effect_name].params

Kwarg(effect_name, effect_props, k) ==
    IF k \in DOMAIN effect_props THEN effect_props[k] ELSE effects_map[effect_name][k]

get_flow(effect_name, effect_props) ==
    [count       |-> Kwarg(effect_name, effect_props, "count"),
     transitions |-> effect_name,
     duration    |-> IF "duration" \in effects_map[effect_name].params
                     THEN Kwarg(effect_name, effect_props, "duration")
                     ELSE 0]

(* ------------------------------- Light -------------------------------- *)

Lamp == <<"L","A","M","P">>

LampRecord == [id |-> 1, ip |-> "192.168.0.10", name |-> Lamp, is_default |-> FALSE]

LightOf(db_light, is_connected) ==
    [ip           |-> db_light.ip,
     id           |-> db_light.id,
     name         |-> db_light.name,
     is_default   |-> db_light.is_default,
     is_connected |-> is_connected,
     brightness   |-> 0,
     on           |-> FALSE,
     color        |-> NoColor,
     is_flowing   |-> FALSE,
     effect       |-> None,
     effect_props |-> EmptyDict]

NewLight(is_connected) == LightOf(LampRecord, is_connected)

W(field, value) == [field |-> field, value |-> value]

ClearEffect ==
    <<W("is_flowing", FALSE), W("effect", None), W("effect_props", EmptyDict)>>

ClearConnectionProps_KeepConnected == ClearEffect

ClearConnectionProps == <<W("is_connected", FALSE)>> \o ClearEffect

SetAttr(l, w) == [l EXCEPT ![w.field] = w.value]

dump_props(l) ==
    IF l.is_connected
    THEN IF l.color = NoColor
         THEN [error |-> "AttributeError"]
         ELSE [id |-> l.id, ip |-> l.ip, name |-> l.name,
               is_default |-> l.is_default, is_connected |-> l.is_connected,
               brightness |-> l.brightness, on |-> l.on, color |-> hex(l.color),
               is_flowing |-> l.is_flowing, effect |-> l.effect,
               effect_props |-> l.effect_props]
    ELSE [id |-> l.id, ip |-> l.ip, name |-> l.name,
          is_default |-> l.is_default, is_connected |-> l.is_connected]

(* ------------------------- inputs of the model ------------------------ *)

Margin == 1

BrightnessInputs == ((1 - Margin)..1) \cup (100..(100 + Margin))

Red == Color(255, 0, 0)

ColorInputs ==
    {[type |-> "Color", value |-> Red],
     [type |-> "str",   value |-> <<"#","0","F","0">>],
     [type |-> "str",   value |-> <<"#","0","0","f","f","0","g">>],
     [type |-> "tuple", value |-> Red],
     [type |-> "int",   value |-> <<5>>]}

EffectNameInputs == {None, "disco", "lsd", "rainbow"}

EffectPropsInputs ==
    {EmptyDict, [count |-> 2], [duration |-> 500], [speed |-> 1]}

BulbProps ==
    [power   : {"on", "off"},
     bright  : {<<"5","0">>},
     rgb     : {<<"6","5","2","8","0">>},
     flowing : {"0", "1"}]

\* What a bulb that has no colour mode answers: an empty rgb.
UnusableProps ==
    {[power |-> "on", bright |-> <<"5","0">>, rgb |-> <<>>, flowing |-> "0"]}

max_light_length == 4

NameInputs == {<<"d","e","s","k">>, <<"L","a","m","p","2","2">>}

(* --------------------------- the two threads -------------------------- *)
(* lock: the owner of Light.__lock ("free", "fg" or "refresh").           *)
(* fg:   the foreground caller. pc is "idle", "call" (about to call the   *)
(*       bulb), "store" (cache writes pending) or "ret" (about to return  *)
(*       or raise `raises`); calls lists the bulb calls it has made, pre  *)
(*       is the Light as it was when the call was entered, and overlap    *)
(*       tells whether the refresh read the bulb or wrote the cache while *)
(*       the call was in progress (pre is then dropped: the caller can no *)
(*       longer tell its own effect from the refresh's).                  *)
(* rt:   the refresh (the one of __init__, then the refresh thread); pc is *)
(*       "sleep", "read", "write" or, once an exception other than        *)
(*       BulbException has left __refresh_props, "crashed"; got tells     *)
(*       whether get_properties returned, and props is what it returned.  *)
(* constructed: Light.__init__ has returned.                              *)
(* store: the records of the persistence store (iot_app.db.lights).       *)
(* dump_props takes no lock and writes nothing: it may run in any state   *)
(* after construction and returns dump_props(light) of that state.        *)

Free == "free"

IdleFg ==
    [pc |-> "idle", op |-> None, arg |-> None, call |-> None,
     writes |-> <<>>, raises |-> None, calls |-> <<>>, pre |-> None,
     overlap |-> FALSE]

Enter(op, arg) ==
    [pc |-> "call", op |-> op, arg |-> arg, call |-> None,
     writes |-> <<>>, raises |-> OK, calls |-> <<>>, pre |-> light,
     overlap |-> FALSE]

Raise(op, arg, err) == [Enter(op, arg) EXCEPT !.pc = "ret", !.raises = err]

BulbCall(method, arg) == [method |-> method, arg |-> arg, raised |-> FALSE]

IdleRt ==
    [pc |-> "sleep", writes |-> <<>>, got |-> FALSE, props |-> None, raises |-> None]

NoManager ==
    /\ lights = <<>>
    /\ disc = None
    /\ notified = None
    /\ instance = 0
    /\ callers = <<>>
    /\ managers = {}

Init ==
    /\ \E is_connected \in BOOLEAN :
          /\ light = NewLight(is_connected)
          /\ constructed = ~is_connected
    /\ lock = Free
    /\ fg = IdleFg
    /\ rt = IdleRt
    /\ store = <<LampRecord>>
    /\ NoManager

(* ------------------------------ refresh ------------------------------- *)

RefreshWrites(props) ==
    <<W("is_connected", TRUE)>> \o
    IF ~IsInt(props.bright) THEN <<>>
    ELSE <<W("brightness", ParseInt(props.bright)),
           W("on", props.power = "on")>> \o
         IF ~IsInt(props.rgb) THEN <<>>
         ELSE <<W("color", from_rgb_int(ParseInt(props.rgb))),
                W("is_flowing", props.flowing = "1")>>

RefreshRaises(props) ==
    IF IsInt(props.bright) /\ IsInt(props.rgb) THEN None ELSE ValueError

Overlapped ==
    IF fg.pc = "idle" THEN fg ELSE [fg EXCEPT !.overlap = TRUE, !.pre = None]

RefreshAcquire ==
    /\ rt.pc = "sleep"
    /\ lock = Free
    /\ lock' = "refresh"
    /\ rt' = [rt EXCEPT !.pc = "read"]
    /\ UNCHANGED <<light, fg, constructed, store, mgrVars, singVars>>

GetPropertiesOk ==
    /\ rt.pc = "read"
    /\ \E props \in BulbProps \cup UnusableProps :
          rt' = [pc |-> "write", writes |-> RefreshWrites(props), got |-> TRUE,
                 props |-> props, raises |-> RefreshRaises(props)]
    /\ fg' = Overlapped
    /\ UNCHANGED <<light, lock, constructed, store, mgrVars, singVars>>

GetPropertiesFail ==
    /\ rt.pc = "read"
    /\ rt' = [pc |-> "write", writes |-> ClearConnectionProps, got |-> FALSE,
              props |-> None, raises |-> None]
    /\ fg' = Overlapped
    /\ UNCHANGED <<light, lock, constructed, store, mgrVars, singVars>>

RefreshWrite ==
    /\ rt.pc = "write"
    /\ rt.writes # <<>>
    /\ light' = SetAttr(light, Head(rt.writes))
    /\ rt' = [rt EXCEPT !.writes = Tail(@)]
    /\ fg' = Overlapped
    /\ UNCHANGED <<lock, constructed, store, mgrVars, singVars>>

RefreshRelease ==
    /\ rt.pc = "write"
    /\ rt.writes = <<>>
    /\ lock' = Free
    /\ rt' = IF rt.raises = None THEN IdleRt ELSE [IdleRt EXCEPT !.pc = "crashed"]
    /\ constructed' = (constructed \/ rt.raises = None)
    /\ UNCHANGED <<light, fg, store, mgrVars, singVars>>

(* ------------------------ foreground mutators ------------------------- *)

CanEnter == constructed /\ fg.pc = "idle"

BrightnessInRange_OffByOne(new_brightness) ==
    1 <= new_brightness /\ new_brightness < 100

BrightnessInRange(new_brightness) == 1 <= new_brightness /\ new_brightness <= 100

SetBrightness(new_brightness) ==
    /\ CanEnter
    /\ lock = Free
    /\ lock' = "fg"
    /\ fg' = IF ~BrightnessInRange(new_brightness)
             THEN Raise("brightness", new_brightness, ValueError)
             ELSE [Enter("brightness", new_brightness) EXCEPT
                      !.call = BulbCall("set_brightness", new_brightness)]
    /\ UNCHANGED <<light, rt, constructed, store, mgrVars, singVars>>

ColorObj(new_color) ==
    IF new_color.type = "str" THEN from_hex(new_color.value) ELSE new_color.value

SetColor(new_color) ==
    /\ CanEnter
    /\ lock = Free
    /\ lock' = "fg"
    /\ fg' = IF new_color.type \notin {"Color", "str", "tuple"}
             THEN Raise("color", new_color, ValueError)
             ELSE IF new_color.type = "str" /\ ~HexValid(new_color.value)
             THEN Raise("color", new_color, ValueError)
             ELSE [Enter("color", new_color) EXCEPT
                      !.call = BulbCall("set_rgb", rgb_dict(ColorObj(new_color)))]
    /\ UNCHANGED <<light, rt, constructed, store, mgrVars, singVars>>

SetOn(new_on) ==
    /\ CanEnter
    /\ lock = Free
    /\ lock' = "fg"
    /\ fg' = [Enter("on", new_on) EXCEPT
                 !.call = BulbCall(IF new_on THEN "turn_on" ELSE "turn_off", None)]
    /\ UNCHANGED <<light, rt, constructed, store, mgrVars, singVars>>

SetEffect(effect_name, effect_props) ==
    /\ CanEnter
    /\ LET arg == [name |-> effect_name, props |-> effect_props] IN
       fg' = IF effect_name = None
             THEN [Enter("set_effect", arg) EXCEPT !.call = BulbCall("stop_flow", None)]
             ELSE IF effect_name \notin DOMAIN effects_map
             THEN Raise("set_effect", arg, KeyError)
             ELSE IF ~AcceptsProps(effect_name, effect_props)
             THEN Raise("set_effect", arg, PropsIncorrect)
             ELSE [Enter("set_effect", arg) EXCEPT
                      !.call = BulbCall("start_flow", get_flow(effect_name, effect_props))]
    /\ UNCHANGED <<light, lock, rt, constructed, store, mgrVars, singVars>>

NameTooLong(new_name) == Len(new_name) > max_light_length

SetName(new_name) ==
    /\ CanEnter
    /\ lock = Free
    /\ lock' = "fg"
    /\ fg' = IF NameTooLong(new_name)
             THEN Raise("name", new_name, ValueError)
             ELSE [Enter("name", new_name) EXCEPT
                      !.pc = "store", !.writes = <<W("name", new_name)>>]
    /\ UNCHANGED <<light, rt, constructed, store, mgrVars, singVars>>

SetIsDefault(new_is_default) ==
    /\ CanEnter
    /\ lock = Free
    /\ lock' = "fg"
    /\ fg' = [Enter("is_default", new_is_default) EXCEPT
                 !.pc = "store", !.writes = <<W("is_default", new_is_default)>>]
    /\ UNCHANGED <<light, rt, constructed, store, mgrVars, singVars>>

save_light(known, l) ==
    LET doc == [id |-> l.id, ip |-> l.ip, name |-> l.name, is_default |-> l.is_default]
    IN  IF \E i \in 1..Len(known) : known[i].id = l.id
        THEN [i \in 1..Len(known) |-> IF known[i].id = l.id THEN doc ELSE known[i]]
        ELSE Append(known, doc)

BrightnessStore_Reconnect(new_brightness) ==
    <<W("is_connected", TRUE), W("brightness", new_brightness)>>

BrightnessStore(new_brightness) == <<W("brightness", new_brightness)>>

ColorStore(new_color) == <<W("color", ColorObj(new_color))>>

OnStore_NoClear(new_on) == <<W("on", new_on)>>

OnStore(new_on) ==
    IF new_on THEN <<W("on", TRUE)>> ELSE ClearEffect \o <<W("on", FALSE)>>

EffectStore_NoProps(effect_name, effect_props) ==
    IF effect_name = None
    THEN ClearEffect
    ELSE <<W("is_flowing", TRUE), W("effect", effect_name)>>

EffectStore(effect_name, effect_props) ==
    IF effect_name = None
    THEN ClearEffect
    ELSE <<W("is_flowing", TRUE), W("effect", effect_name),
           W("effect_props", effect_props)>>

Store(op, arg) ==
    CASE op = "brightness" -> BrightnessStore(arg)
      [] op = "color"      -> ColorStore(arg)
      [] op = "on"         -> OnStore(arg)
      [] op = "set_effect" -> EffectStore(arg.name, arg.props)

HandleConnectionFailure_NoRaise(f) ==
    [f EXCEPT !.pc = "store",
              !.writes = ClearConnectionProps \o Store(f.op, f.arg)]

HandleConnectionFailure(f) ==
    [f EXCEPT !.pc = "store", !.writes = ClearConnectionProps, !.raises = CannotConnect]

BulbReturns ==
    /\ fg.pc = "call"
    /\ fg' = [fg EXCEPT !.pc = "store", !.calls = Append(@, fg.call),
                        !.writes = Store(fg.op, fg.arg)]
    /\ UNCHANGED <<light, lock, rt, constructed, store, mgrVars, singVars>>

BulbRaises ==
    /\ fg.pc = "call"
    /\ fg' = HandleConnectionFailure(
                [fg EXCEPT !.calls = Append(@, [fg.call EXCEPT !.raised = TRUE])])
    /\ UNCHANGED <<light, lock, rt, constructed, store, mgrVars, singVars>>

FgWrite ==
    /\ fg.pc = "store"
    /\ lock \in {Free, "fg"}
    /\ light' = SetAttr(light, Head(fg.writes))
    /\ fg' = [fg EXCEPT !.writes = Tail(@),
                        !.pc = IF Tail(fg.writes) # <<>> THEN "store"
                               ELSE IF fg.op \in {"name", "is_default"} THEN "save"
                               ELSE "ret"]
    /\ UNCHANGED <<lock, rt, constructed, store, mgrVars, singVars>>

Save ==
    /\ fg.pc = "save"
    /\ store' = save_light(store, light)
    /\ fg' = [fg EXCEPT !.pc = "ret"]
    /\ UNCHANGED <<light, lock, rt, constructed, mgrVars, singVars>>

FgReturn ==
    /\ fg.pc = "ret"
    /\ fg' = IdleFg
    /\ lock' = IF lock = "fg" THEN Free ELSE lock
    /\ UNCHANGED <<light, rt, constructed, store, mgrVars, singVars>>

Next ==
    \/ RefreshAcquire
    \/ GetPropertiesOk
    \/ GetPropertiesFail
    \/ RefreshWrite
    \/ RefreshRelease
    \/ \E n \in BrightnessInputs : SetBrightness(n)
    \/ \E c \in ColorInputs : SetColor(c)
    \/ \E b \in BOOLEAN : SetOn(b)
    \/ \E e \in EffectNameInputs, p \in EffectPropsInputs : SetEffect(e, p)
    \/ \E n \in NameInputs : SetName(n)
    \/ \E b \in BOOLEAN : SetIsDefault(b)
    \/ Save
    \/ BulbReturns
    \/ BulbRaises
    \/ FgWrite
    \/ FgReturn

Spec == Init /\ [][Next]_vars

(* ------------------------------ claims -------------------------------- *)

Quiet == constructed /\ fg.pc = "idle" /\ rt.pc = "sleep" /\ lock = Free

Returning(op) == fg.pc = "ret" /\ fg.op = op

BulbFailed == \E i \in 1..Len(fg.calls) : fg.calls[i].raised

LiveFields == {"brightness", "on", "color", "is_flowing", "effect"}

NoEffect(l) == ~l.is_flowing /\ l.effect = None /\ l.effect_props = EmptyDict

\* C1: whenever no operation on the Light is in progress, is_flowing is
\* true if and only if an effect name is recorded.
C1_FlowingIffEffect == Quiet => (light.is_flowing <=> light.effect # None)

\* C2: whenever no operation on the Light is in progress and is_connected is
\* false, on is false, is_flowing is false and no effect is recorded.
C2_DisconnectedDefaults ==
    (Quiet /\ ~light.is_connected) =>
        (~light.on /\ ~light.is_flowing /\ light.effect = None)

\* C3: when a mutator is about to return after its bulb call raised, it
\* raises the cannot-connect LightException and, unless a refresh acted during
\* the call, is_connected is false and dump_props holds no live field.
C3_FailureDisconnects ==
    (fg.pc = "ret" /\ BulbFailed) =>
        /\ fg.raises = CannotConnect
        /\ ~fg.overlap =>
              /\ ~light.is_connected
              /\ DOMAIN dump_props(light) \cap LiveFields = {}

C3_Witness ==
    /\ Returning("set_effect") /\ BulbFailed /\ ~fg.overlap
    /\ fg.arg.name = "disco"
    /\ fg.pre.is_connected /\ fg.pre.on

\* C4: between a foreground mutator's bulb call and the end of its cache
\* writes, the refresh takes no step.
C4_NoRefreshInsideCommand == [][fg.pc = "store" => rt' = rt]_vars

\* C5: when the bulb call of the brightness, color or on setter raised, the
\* cached brightness, color and on are what they were when the setter was
\* entered.
C5_FailedCallNotCached ==
    (fg.pc = "ret" /\ fg.op \in {"brightness", "color", "on"} /\ BulbFailed
       /\ ~fg.overlap) =>
        /\ light.brightness = fg.pre.brightness
        /\ light.color = fg.pre.color
        /\ light.on = fg.pre.on

C5_Witness ==
    /\ Returning("brightness") /\ BulbFailed /\ ~fg.overlap
    /\ fg.pre.is_connected
    /\ fg.arg # fg.pre.brightness

ToldUnchanged == fg.calls = <<>> /\ (~fg.overlap => light = fg.pre)

\* C6 as stated: set_effect with a known name and props that are not
\* exactly the effect's parameters (some missing or some extra) raises the
\* props-incorrect LightException, calls the bulb not at all and changes nothing.
C6_MissingOrExtraRejected ==
    (Returning("set_effect") /\ fg.arg.name \in DOMAIN effects_map
       /\ DOMAIN fg.arg.props # effects_map[fg.arg.name].params) =>
        (fg.raises = PropsIncorrect /\ ToldUnchanged)

\* C6 as amended: set_effect with a known name and a prop the effect does
\* not take raises the props-incorrect LightException, calls the bulb not at
\* all and changes nothing; a missing prop takes its default and is no error.
C6_ExtraRejected ==
    (Returning("set_effect") /\ fg.arg.name \in DOMAIN effects_map) =>
        /\ ~(DOMAIN fg.arg.props \subseteq effects_map[fg.arg.name].params) =>
              (fg.raises = PropsIncorrect /\ ToldUnchanged)
        /\ DOMAIN fg.arg.props \subseteq effects_map[fg.arg.name].params =>
              (fg.raises # PropsIncorrect /\ Len(fg.calls) = 1)

C6_Witness ==
    /\ Returning("set_effect") /\ ~fg.overlap
    /\ fg.arg.name = "disco" /\ fg.arg.props = [duration |-> 500]
    /\ fg.pre.is_connected /\ fg.pre.is_flowing

\* C7: set_effect with a name that is not a known effect raises the
\* props-incorrect LightException, calls the bulb not at all and changes nothing.
C7_UnknownNameRejected ==
    (Returning("set_effect") /\ fg.arg.name \notin DOMAIN effects_map \cup {None}) =>
        (fg.raises = PropsIncorrect /\ ToldUnchanged)

\* C8: the brightness setter raises ValueError exactly when n is outside
\* 1..100, and then calls the bulb not at all and changes nothing; it returns
\* normally exactly when n is in 1..100 and the bulb call did not raise.
C8_BrightnessRange ==
    Returning("brightness") =>
        /\ fg.raises = ValueError <=> ~(1 <= fg.arg /\ fg.arg <= 100)
        /\ fg.raises = OK <=> (1 <= fg.arg /\ fg.arg <= 100 /\ ~BulbFailed)
        /\ fg.raises = ValueError => (fg.calls = <<>> /\ ~fg.overlap /\ light = fg.pre)
        /\ fg.raises = OK => (light.brightness = fg.arg /\ Len(fg.calls) = 1)

C8_Witness ==
    /\ Returning("brightness") /\ fg.arg = 101 /\ fg.raises = ValueError
    /\ fg.pre.is_connected /\ fg.pre.brightness = 100

\* C9: set_effect with a known name and accepted props on a connected Light,
\* when the bulb call does not raise and no refresh acts during the call,
\* returns normally having called start_flow once and nothing else, with
\* is_flowing true and the name and props recorded.
C9_EffectStarted ==
    (Returning("set_effect") /\ fg.arg.name \in DOMAIN effects_map
       /\ DOMAIN fg.arg.props \subseteq effects_map[fg.arg.name].params
       /\ ~BulbFailed /\ ~fg.overlap /\ fg.pre.is_connected) =>
        /\ fg.raises = OK
        /\ Len(fg.calls) = 1 /\ fg.calls[1].method = "start_flow"
        /\ fg.calls[1].arg.transitions = fg.arg.name
        /\ (fg.arg.name = "disco" /\ fg.arg.props = [count |-> 2]) =>
              fg.calls[1].arg.count = 2
        /\ light.is_flowing
        /\ light.effect = fg.arg.name
        /\ light.effect_props = fg.arg.props

C9_Witness ==
    /\ Returning("set_effect") /\ ~BulbFailed /\ ~fg.overlap
    /\ fg.arg.name = "disco" /\ fg.arg.props = [count |-> 2]
    /\ fg.pre.is_connected /\ ~fg.pre.is_flowing /\ fg.pre.effect = None

\* C10: when the on setter is about to return normally from on = False, on is
\* false and no effect is recorded; if that already held when it was entered,
\* the cached state is what it was.
C10_PowerOffClears ==
    (Returning("on") /\ fg.arg = FALSE /\ fg.raises = OK /\ ~fg.overlap) =>
        /\ ~light.on /\ NoEffect(light)
        /\ (~fg.pre.on /\ NoEffect(fg.pre)) => light = fg.pre

C10_Witness ==
    /\ Returning("on") /\ fg.arg = FALSE /\ fg.raises = OK /\ ~fg.overlap
    /\ ~fg.pre.on /\ fg.pre.is_flowing

C10_WitnessAgain ==
    /\ Returning("on") /\ fg.arg = FALSE /\ fg.raises = OK /\ ~fg.overlap
    /\ ~fg.pre.on /\ NoEffect(fg.pre) /\ fg.pre.is_connected

(* ----------------------- claims on the refresh ------------------------ *)

RefreshRead == rt.pc = "write" /\ rt.writes = <<>> /\ rt.got /\ rt.raises = None

\* C11: when a refresh whose get_properties returned usable properties has
\* made its writes, with no foreground call in progress, the Light is
\* connected and on, brightness, color and is_flowing are those reported, and
\* with flowing reported off no effect is recorded.
C11_RefreshOverwritesAll ==
    (RefreshRead /\ fg.pc = "idle") =>
        /\ light.is_connected
        /\ light.on = (rt.props.power = "on")
        /\ light.brightness = 50
        /\ hex(light.color) = <<"#","0","0","f","f","0","0">>
        /\ light.is_flowing = (rt.props.flowing = "1")
        /\ rt.props.flowing = "0" => light.effect = None

\* C17: a Light that is not connected still has its refresh loop running, so
\* that a later successful read can connect it.
C17_DisconnectedKeepsRetrying == ~light.is_connected => rt.pc # "crashed"

\* C18: is_connected goes from false to true only in a write of a refresh
\* whose get_properties returned; no step of a foreground mutator does it.
C18_OnlyRefreshConnects ==
    [][(~light.is_connected /\ light'.is_connected) =>
          (rt.pc = "write" /\ rt.got /\ rt'.writes = Tail(rt.writes) /\ fg' = Overlapped)]_vars

C18_Witness ==
    /\ fg.pc = "ret" /\ fg.op \in {"brightness", "color", "on", "set_effect"}
    /\ Len(fg.calls) = 1 /\ ~BulbFailed /\ ~fg.overlap
    /\ ~fg.pre.is_connected /\ ~light.is_connected
    /\ fg.raises = OK

\* C19: dump_props, in whatever state after construction it runs, raises
\* nothing and shows no half-made update: never is_flowing without an effect
\* name.
C19_DumpConsistent ==
    constructed =>
        /\ "error" \notin DOMAIN dump_props(light)
        /\ light.is_connected =>
              (dump_props(light).is_flowing => dump_props(light).effect # None)

(* --------------------------- LightManager ----------------------------- *)
(* lights:   LightManager.__lights, in the order of the appends.          *)
(* disc:     the discovery pass in progress: pc is "probe", "save",       *)
(*           "list", "loop" or, once an exception has left                *)
(*           __do_lights_discovery, "crashed"; connected_bulbs is the     *)
(*           probe's answer, db_lights the records read, i the record the *)
(*           loop is at, pending the constructions submitted to the       *)
(*           executor and not yet completed.                              *)
(* notified: what the last notify() did: the bulbs it started the flow on *)
(*           and what it raised.                                          *)
(* A Light of the collection is the record its constructor leaves; its    *)
(* own refresh loop and bulb calls are those of the first part.           *)

IpA == "192.168.0.10"

IpB == "192.168.0.11"

Desk == <<"D","E","S","K">>

MaxProbe == 1

BulbInfo(ip) == [ip |-> ip, capabilities |-> [name |-> <<"b","u","l","b">>]]

RECURSIVE SeqsUpTo(_, _)
SeqsUpTo(S, n) ==
    IF n = 0 THEN {<<>>}
    ELSE SeqsUpTo(S, n - 1) \cup
         {Append(q, x) : q \in {r \in SeqsUpTo(S, n - 1) : Len(r) = n - 1}, x \in S}

ProbeResults == SeqsUpTo({BulbInfo(IpA), BulbInfo(IpB)}, MaxProbe)

\* What the store may hold when the process starts: nothing, one bulb, two
\* bulbs, and two records of one address.
StoreInputs ==
    {<<>>,
     <<LampRecord>>,
     <<LampRecord, [id |-> 2, ip |-> IpB, name |-> Desk, is_default |-> TRUE]>>,
     <<LampRecord, [id |-> 2, ip |-> IpA, name |-> Desk, is_default |-> TRUE]>>}

Ips(docs) == {docs[i].ip : i \in 1..Len(docs)}

RECURSIVE save_new_lights(_, _)
save_new_lights(known, bulb_info) ==
    IF bulb_info = <<>> THEN known
    ELSE LET bulb == Head(bulb_info)
             doc  == [id |-> Len(known) + 1, ip |-> bulb.ip,
                      name |-> bulb.capabilities.name, is_default |-> FALSE]
         IN  save_new_lights(IF bulb.ip \notin Ips(known) THEN Append(known, doc)
                             ELSE known,
                             Tail(bulb_info))

\* The index in ls of the first Light with this address, 0 for Python's None.
get_light_by_ip(ls, ip) ==
    IF \E i \in 1..Len(ls) : ls[i].ip = ip
    THEN CHOOSE i \in 1..Len(ls) :
            ls[i].ip = ip /\ \A j \in 1..(i - 1) : ls[j].ip # ip
    ELSE 0

\* The index in ls of the first Light with this name, 0 for Python's None.
get_light_by_name(ls, name) ==
    IF \E i \in 1..Len(ls) : ls[i].name = upper(name)
    THEN CHOOSE i \in 1..Len(ls) :
            ls[i].name = upper(name) /\ \A j \in 1..(i - 1) : ls[j].name # upper(name)
    ELSE 0

default_lights(ls) == SelectSeq(ls, LAMBDA l : l.is_default)

RECURSIVE SetAttrs(_, _)
SetAttrs(l, ws) == IF ws = <<>> THEN l ELSE SetAttrs(SetAttr(l, Head(ws)), Tail(ws))

\* The Lights Light.__init__ may return: with is_connected it refreshes once.
Constructed(db_light, is_connected) ==
    IF ~is_connected THEN {LightOf(db_light, FALSE)}
    ELSE {SetAttrs(LightOf(db_light, TRUE), RefreshWrites(props)) :
             props \in {q \in BulbProps : q.power = "off" /\ q.flowing = "0"}}
         \cup {SetAttrs(LightOf(db_light, TRUE), ClearConnectionProps)}

IdleDisc ==
    [pc |-> "probe", connected_bulbs |-> <<>>, db_lights |-> <<>>, i |-> 0,
     pending |-> {}]

NotNotified == [called |-> FALSE, bulbs |-> <<>>, started |-> {}, raises |-> None]

NoCallers ==
    /\ instance = 0
    /\ callers = <<>>
    /\ managers = {}

MgrInit ==
    /\ light = NewLight(FALSE)
    /\ lock = Free
    /\ fg = IdleFg
    /\ rt = IdleRt
    /\ constructed = TRUE
    /\ store \in StoreInputs
    /\ lights = <<>>
    /\ disc = IdleDisc
    /\ notified = NotNotified
    /\ NoCallers

DiscoverBulbs ==
    /\ disc.pc = "probe"
    /\ \E bulbs \in ProbeResults :
          disc' = [IdleDisc EXCEPT !.pc = "save", !.connected_bulbs = bulbs]
    /\ UNCHANGED <<lightVars, store, lights, notified, singVars>>

SaveNewLights ==
    /\ disc.pc = "save"
    /\ store' = save_new_lights(store, disc.connected_bulbs)
    /\ disc' = [disc EXCEPT !.pc = "list"]
    /\ UNCHANGED <<lightVars, lights, notified, singVars>>

GetLights ==
    /\ disc.pc = "list"
    /\ disc' = [disc EXCEPT !.pc = "loop", !.db_lights = store, !.i = 1]
    /\ UNCHANGED <<lightVars, store, lights, notified, singVars>>

\* discover_bulbs() or a call of the store raises: nothing catches it.
DiscoveryRaises ==
    /\ disc.pc \in {"probe", "save", "list"}
    /\ disc' = [IdleDisc EXCEPT !.pc = "crashed"]
    /\ UNCHANGED <<lightVars, store, lights, notified, singVars>>

Submit ==
    /\ disc.pc = "loop"
    /\ disc.i <= Len(disc.db_lights)
    /\ LET db_light == disc.db_lights[disc.i] IN
       disc' = [disc EXCEPT
                  !.i = @ + 1,
                  !.pending =
                      IF get_light_by_ip(lights, db_light.ip) = 0
                      THEN @ \cup {[db_light |-> db_light,
                                    is_connected |->
                                        db_light.ip \in Ips(disc.connected_bulbs)]}
                      ELSE @]
    /\ UNCHANGED <<lightVars, store, lights, notified, singVars>>

Appended_Reset(ls, l) == <<l>>

Appended(ls, l) == Append(ls, l)

Construct ==
    /\ \E job \in disc.pending :
          /\ \E l \in Constructed(job.db_light, job.is_connected) :
                lights' = Appended(lights, l)
          /\ disc' = [disc EXCEPT !.pending = @ \ {job}]
    /\ UNCHANGED <<lightVars, store, notified, singVars>>

\* The executor has shut down (every future is done): the Timer of the next
\* pass is started, and fires.
Reschedule ==
    /\ disc.pc = "loop"
    /\ disc.i > Len(disc.db_lights)
    /\ disc.pending = {}
    /\ disc' = IdleDisc
    /\ UNCHANGED <<lightVars, store, lights, notified, singVars>>

MgrSetName(i, new_name) ==
    /\ i \in 1..Len(lights)
    /\ ~NameTooLong(new_name)
    /\ lights' = [lights EXCEPT ![i] = SetAttr(@, W("name", new_name))]
    /\ store' = save_light(store, lights'[i])
    /\ UNCHANGED <<lightVars, disc, notified, singVars>>

\* notify(level, *bulbs): objects are told apart by their class; only a
\* yeelight Bulb has start_flow.
PyList(items) == [class |-> "list", items |-> items]

Bulb(ip) == [class |-> "Bulb", ip |-> ip]

HasStartFlow(obj) == obj.class = "Bulb"

RECURSIVE StartFlows(_, _)
StartFlows(bulbs, started) ==
    IF bulbs = <<>> THEN [started |-> started, raises |-> OK]
    ELSE IF ~HasStartFlow(Head(bulbs))
    THEN [started |-> started, raises |-> "AttributeError"]
    ELSE StartFlows(Tail(bulbs), started \cup {Head(bulbs).ip})

NotifyBulbs(bulbs) ==
    IF Len(bulbs) = 0 THEN <<PyList(default_lights(lights))>> ELSE bulbs

Notify(bulbs) ==
    /\ LET done == StartFlows(NotifyBulbs(bulbs), {}) IN
       notified' = [called |-> TRUE, bulbs |-> bulbs,
                    started |-> done.started, raises |-> done.raises]
    /\ UNCHANGED <<lightVars, store, lights, disc, singVars>>

NotifyInputs == {<<>>, <<Bulb(IpB), Bulb(IpA)>>}

MgrNext ==
    \/ DiscoverBulbs
    \/ SaveNewLights
    \/ GetLights
    \/ DiscoveryRaises
    \/ Submit
    \/ Construct
    \/ Reschedule
    \/ \E i \in 1..3, n \in NameInputs : MgrSetName(i, n)
    \/ \E bulbs \in NotifyInputs : Notify(bulbs)

MgrSpec == MgrInit /\ [][MgrNext]_vars

(* ----------------------- LightManager.instance() ---------------------- *)
(* instance: LightManager.__instance, 0 for Python's None, else the       *)
(*           manager object (named after the caller that constructed it). *)
(* callers:  each thread calling instance(): where it is in the call and  *)
(*           what its last call returned.                                 *)
(* managers: the managers whose __init__ ran the first discovery pass,    *)
(*           which starts that manager's discovery Timer.                 *)

NumCallers == 3

Caller == 1..NumCallers

SingInit ==
    /\ light = NewLight(FALSE)
    /\ lock = Free
    /\ fg = IdleFg
    /\ rt = IdleRt
    /\ constructed = TRUE
    /\ store = <<LampRecord>>
    /\ lights = <<>>
    /\ disc = IdleDisc
    /\ notified = NotNotified
    /\ instance = 0
    /\ callers = [t \in Caller |-> [pc |-> "idle", ret |-> 0]]
    /\ managers = {}

\* instance(): if LightManager.__instance is None
InstanceCheck(t) ==
    /\ callers[t].pc \in {"idle", "done"}
    /\ callers' = [callers EXCEPT ![t].pc = IF instance = 0 THEN "init" ELSE "return"]
    /\ UNCHANGED <<lightVars, store, mgrVars, instance, managers>>

\* __init__: if LightManager.__instance is None
InitCheck(t) ==
    /\ callers[t].pc = "init"
    /\ callers' = [callers EXCEPT ![t].pc = IF instance = 0 THEN "discover" ELSE "return"]
    /\ UNCHANGED <<lightVars, store, mgrVars, instance, managers>>

\* __init__: self.__lights = []; self.__do_lights_discovery()
FirstDiscovery(t) ==
    /\ callers[t].pc = "discover"
    /\ managers' = managers \cup {t}
    /\ callers' = [callers EXCEPT ![t].pc = "assign"]
    /\ UNCHANGED <<lightVars, store, mgrVars, instance>>

\* __init__: LightManager.__instance = self
AssignInstance(t) ==
    /\ callers[t].pc = "assign"
    /\ instance' = t
    /\ callers' = [callers EXCEPT ![t].pc = "return"]
    /\ UNCHANGED <<lightVars, store, mgrVars, managers>>

\* instance(): return LightManager.__instance
InstanceReturn(t) ==
    /\ callers[t].pc = "return"
    /\ callers' = [callers EXCEPT ![t] = [pc |-> "done", ret |-> instance]]
    /\ UNCHANGED <<lightVars, store, mgrVars, instance, managers>>

SingNext ==
    \E t \in Caller :
        \/ InstanceCheck(t)
        \/ InitCheck(t)
        \/ FirstDiscovery(t)
        \/ AssignInstance(t)
        \/ InstanceReturn(t)

SingSpec == SingInit /\ [][SingNext]_vars

(* ------------------------- claims: the manager ------------------------ *)

\* C12: the collection never holds two Lights with the same address, nor
\* two with the same id, whatever the store and the probe list.
C12_OneLightPerAddress ==
    \A i, j \in 1..Len(lights) :
        i # j => (lights[i].ip # lights[j].ip /\ lights[i].id # lights[j].id)

\* C13: however the first calls of instance() interleave, one manager is
\* constructed, one discovery loop is started, and every call that has
\* returned returned that manager.
C13_OneManager ==
    /\ Cardinality(managers) <= 1
    /\ \A t \in Caller : callers[t].pc = "done" => callers[t].ret \in managers
    /\ \A t, u \in Caller :
          (callers[t].pc = "done" /\ callers[u].pc = "done") =>
              callers[t].ret = callers[u].ret

\* C14: no failure of the probe or of the store ends the discovery loop:
\* the pass never leaves __do_lights_discovery by an exception, which would
\* skip the start of the next pass's Timer.
C14_DiscoveryNeverStops == disc.pc # "crashed"

\* C15: notify() without targets returns normally, having started the flow
\* on exactly the Lights whose is_default is true.
C15_NotifyDefaults ==
    [][(notified' # notified /\ notified'.bulbs = <<>>) =>
          /\ notified'.raises = OK
          /\ notified'.started = Ips(default_lights(lights))]_vars

IsPrefix(ls, ms) == Len(ls) <= Len(ms) /\ \A i \in 1..Len(ls) : ms[i] = ls[i]

\* C16: a step of discovery keeps every Light of the collection in its
\* place, with every cached field as it was; it can only append.
C16_DiscoveryOnlyAppends == [][disc' # disc => IsPrefix(lights, lights')]_vars

\* A pass is complete; a Light constructed as connected in an earlier pass
\* is still there and connected although this probe did not find its
\* address, and a Light for an address this probe found stands after it.
C16_Witness ==
    /\ disc.pc = "loop"
    /\ disc.i > Len(disc.db_lights)
    /\ disc.pending = {}
    /\ \E i, j \in 1..Len(lights) :
          /\ i < j
          /\ lights[i].is_connected
          /\ lights[i].ip \notin Ips(disc.connected_bulbs)
          /\ lights[j].ip \in Ips(disc.connected_bulbs)

\* C20: once the name setter has changed a Light's name, looking that name
\* up finds a Light whose name it is.
C20_LookupFindsNewName ==
    [][\A i \in 1..Len(lights) :
          lights'[i].name # lights[i].name =>
              /\ get_light_by_name(lights', lights'[i].name) # 0
              /\ lights'[get_light_by_name(lights', lights'[i].name)].name
                    = lights'[i].name]_vars

====
